---- MODULE Spec2Model ----
(***************************************************************************)
(* The EVM auxiliary receipt store of loomchain (store/evm_aux/receipts.go) *)
(* as a state machine: a bounded, persisted, singly linked list of          *)
(* transaction receipts kept in a key-value store through a write batch.    *)
(*                                                                          *)
(* Byte strings are sequences; the empty byte string (a nil or zero-length  *)
(* slice, which is also what db.Get returns for a missing key) is <<>>.     *)
(* A transaction hash is a byte string.                                     *)
(***************************************************************************)
EXTENDS Integers, Sequences, FiniteSets, TLC

\* ------------------------------------------------------------------ bounds
MaxHash == 3        \* distinct non-empty transaction hashes <<1>> .. <<MaxHash>>
MaxBlock == 2       \* receipts in one CommitReceipts call
MaxBound == 2       \* the configured maxReceipts ranges over 0 .. MaxBound
MaxCalls == 3       \* calls (CommitReceipts, GetReceipt) in one run
MaxHeight == 2      \* block heights 1 .. MaxHeight

\* --------------------------------------------------------------- constants
statusTxSuccess == 1
statusTxFailure == 0

NoBytes == <<>>
NilErr == <<>>
ErrTxReceiptNotFound == <<"Tx receipt not found">>

\* errors.Wrap(err, msg) of github.com/pkg/errors: nil when err is nil.
Wrap(err, msg) == IF err = NilErr THEN NilErr ELSE <<msg>> \o err

\* ------------------------------------------------------------------- data
Hashes == {<<h>> : h \in 1..MaxHash}
HashOrEmpty == Hashes \cup {NoBytes}
Heights == 1..MaxHeight

\* A nil *types.EvmTxReceipt.
NilReceipt == [TxHash |-> NoBytes, Status |-> statusTxFailure, Logs |-> <<>>, Nil |-> TRUE]

\* The receipts a caller can hand in: any hash (the empty one included), either
\* status, one log event that identifies the receipt.
Rcpt(h, st) ==
    [TxHash |-> h, Status |-> st,
     Logs |-> <<[Hash |-> h, Status |-> st]>>, Nil |-> FALSE]

Receipts == {Rcpt(h, st) : h \in HashOrEmpty, st \in {statusTxFailure, statusTxSuccess}}
                \cup {NilReceipt}

RECURSIVE SeqsUpTo(_, _)
SeqsUpTo(S, n) ==
    IF n = 0 THEN {<<>>}
    ELSE LET shorter == SeqsUpTo(S, n - 1)
         IN shorter \cup {Append(q, x) : q \in {p \in shorter : Len(p) = n - 1}, x \in S}

\* The receipts of the blocks committed under Spec: every hash, the empty one
\* included.
ChainReceipts == {Rcpt(h, statusTxSuccess) : h \in HashOrEmpty}

Blocks == SeqsUpTo(ChainReceipts, MaxBlock)

\* types.EvmTxReceiptListItem
EmptyItem == [Receipt |-> NilReceipt, NextTxHash |-> NoBytes]

\* proto.Marshal / proto.Unmarshal of an EvmTxReceiptListItem: the message
\* with no field set encodes to zero bytes, and zero bytes decode to it.
Marshal(item) == IF item = EmptyItem THEN NoBytes ELSE <<item>>
Unmarshal(bytes) == IF Len(bytes) = 0 THEN EmptyItem ELSE bytes[1]

\* binary.LittleEndian.PutUint64 / Uint64: 8 bytes, least significant first.
RECURSIVE ByteOf(_, _)
ByteOf(n, i) == IF i = 1 THEN n % 256 ELSE ByteOf(n \div 256, i - 1)
PutUint64(n) == [i \in 1..8 |-> ByteOf(n, i)]
RECURSIVE BytesFrom(_, _)
BytesFrom(b, i) == IF i > Len(b) THEN 0 ELSE b[i] + 256 * BytesFrom(b, i + 1)
Uint64(b) == BytesFrom(b, 1)

\* ------------------------------------------------------------------- keys
currentDbSizeKey == <<"size", NoBytes>>
headKey == <<"head", NoBytes>>
tailKey == <<"tail", NoBytes>>
TxKey(h) == <<"tx", h>>
BloomKey(height) == <<"bloom", <<height>>>>
TxHashListKey(height) == <<"txlist", <<height>>>>

Keys ==
    {currentDbSizeKey, headKey, tailKey}
        \cup {TxKey(h) : h \in HashOrEmpty}
        \cup {BloomKey(n) : n \in Heights}
        \cup {TxHashListKey(n) : n \in Heights}

VARIABLES
    db,             \* the durable key-value store: key -> bytes (<<>>: no entry)
    batch,          \* s.batch: the staged operations, in order
    maxReceipts,    \* s.maxReceipts
    last,           \* the last call: its arguments, what it returned, what it did
    pre,            \* db as it was when the last call started
    calls,          \* calls made
    inserted        \* hashes of the receipts linked by committed calls, in order

vars == <<db, batch, maxReceipts, last, pre, calls, inserted>>

\* The store object s as the methods see it.
Store == [db |-> db, batch |-> batch, maxReceipts |-> maxReceipts]

\* ------------------------------------------------------- key-value engine
Get(s, key) == s.db[key]
Has(s, key) == s.db[key] # NoBytes

\* s.batch.Set as it would be if it were s.db.Set: written through at once.
BatchSetDirect(s, key, val) == [s EXCEPT !.db = [@ EXCEPT ![key] = val]]

BatchSet(s, key, val) ==
    [s EXCEPT !.batch = Append(@, [op |-> "set", key |-> key, val |-> val])]
BatchDelete(s, key) ==
    [s EXCEPT !.batch = Append(@, [op |-> "delete", key |-> key, val |-> NoBytes])]

Rollback(s) == [s EXCEPT !.batch = <<>>]

ApplyOp(d, o) == [d EXCEPT ![o.key] = IF o.op = "set" THEN o.val ELSE NoBytes]

RECURSIVE ApplyBatch(_, _)
ApplyBatch(d, b) == IF b = <<>> THEN d ELSE ApplyBatch(ApplyOp(d, Head(b)), Tail(b))

\* The batch written as one unit; when the engine fails nothing is applied.
Commit(s, engineFails) ==
    IF engineFails
    THEN [s |-> s, err |-> <<"write failed">>]
    ELSE [s |-> [s EXCEPT !.db = ApplyBatch(s.db, s.batch)], err |-> NilErr]

\* --------------------------------------------------------------- the store

\* getDBParams: (size, head, tail, err) read from the durable store.
getDBParams(s) ==
    LET none(err) == [size |-> 0, head |-> NoBytes, tail |-> NoBytes, err |-> err]
    IN IF ~Has(s, currentDbSizeKey) THEN none(NilErr)
       ELSE LET size == Uint64(Get(s, currentDbSizeKey))
                head == Get(s, headKey)
                tail == Get(s, tailKey)
            IN IF size = 0 THEN none(NilErr)
               ELSE IF Len(head) = 0
                    THEN none(<<"no head for non zero size receipt db">>)
               ELSE IF Len(tail) = 0
                    THEN none(<<"no tail for non zero size receipt db">>)
               ELSE [size |-> size, head |-> head, tail |-> tail, err |-> NilErr]

\* setDBParams: head, tail and the encoded size staged in the batch.
setDBParams(s, size, head, tail) ==
    BatchSet(BatchSet(BatchSet(s, headKey, head), tailKey, tail),
             currentDbSizeKey, PutUint64(size))

\* removeOldEntries: walk from head through the next hashes read from the
\* durable store, staging a delete of each visited key, for at most number
\* steps and while the hash walked to is non-empty.
RECURSIVE removeLoop(_, _, _, _, _)
removeLoop(s, head, i, number, itemsDeleted) ==
    IF i < number /\ Len(head) > 0
    THEN LET txHeadReceiptItem == Unmarshal(Get(s, TxKey(head)))
         IN removeLoop(BatchDelete(s, TxKey(head)), txHeadReceiptItem.NextTxHash,
                       i + 1, number, itemsDeleted + 1)
    ELSE [s |-> s, head |-> head, itemsDeleted |-> itemsDeleted]

\* removeOldEntries as it would be without its final check of the count.
removeOldEntriesSilent(s, head, number) ==
    LET r == removeLoop(s, head, 0, number, 0)
    IN [s |-> r.s, head |-> r.head, itemsDeleted |-> r.itemsDeleted, err |-> NilErr]

\* removeOldEntries as it would be if it returned the head it was given.
removeOldEntriesKeepHead(s, head, number) ==
    LET r == removeLoop(s, head, 0, number, 0)
    IN [s |-> r.s, head |-> head, itemsDeleted |-> r.itemsDeleted,
        err |-> IF r.itemsDeleted < number
                THEN <<"Unable to delete receipts">>
                ELSE NilErr]

removeOldEntries(s, head, number) ==
    LET r == removeLoop(s, head, 0, number, 0)
    IN [s |-> r.s, head |-> r.head, itemsDeleted |-> r.itemsDeleted,
        err |-> IF r.itemsDeleted < number
                THEN <<"Unable to delete receipts">>
                ELSE NilErr]

\* The guard of line 37 as it would be with && for ||.
IsNoOpBoth(s, receipts) == Len(receipts) = 0 /\ s.maxReceipts = 0

\* CommitReceipts, line 37: nothing to do.
IsNoOp(s, receipts) == Len(receipts) = 0 \/ s.maxReceipts = 0

\* CommitReceipts, lines 47-56: the item of the current tail, when the chain has
\* a head. p is what getDBParams returned; its err is nil here, and it is that
\* err which line 51 wraps. ret says whether the function returns at this point.
fetchTail(s, p) ==
    IF Len(p.head) > 0
    THEN LET tailItemProto == Get(s, TxKey(p.tail))
         IN IF Len(tailItemProto) = 0
            THEN [item |-> EmptyItem, ret |-> TRUE, err |-> Wrap(p.err, "cannot find tail")]
            ELSE [item |-> Unmarshal(tailItemProto), ret |-> FALSE, err |-> NilErr]
    ELSE [item |-> EmptyItem, ret |-> FALSE, err |-> NilErr]

\* Lines 60-92 as they would be if linking built the old tail's item anew from
\* the receipt at hand instead of rewriting only its NextTxHash.
linkReceiptOverwrite(st, txReceipt) ==
    IF txReceipt.Nil \/ Len(txReceipt.TxHash) = 0 THEN st
    ELSE LET linked ==
                 IF Len(st.headHash) = 0
                 THEN [st EXCEPT !.headHash = txReceipt.TxHash]
                 ELSE LET item == [Receipt |-> txReceipt, NextTxHash |-> txReceipt.TxHash]
                      IN [st EXCEPT
                            !.tailReceiptItem = item,
                            !.s = BatchSet(@, TxKey(st.tailHash), Marshal(item)),
                            !.size = IF ~Has(st.s, TxKey(st.tailHash)) THEN @ + 1 ELSE @]
         IN [linked EXCEPT
               !.tailHash = txReceipt.TxHash,
               !.tailReceiptItem = [Receipt |-> txReceipt, NextTxHash |-> NoBytes],
               !.txHashArray = IF txReceipt.Status = statusTxSuccess
                               THEN Append(@, txReceipt.TxHash) ELSE @,
               !.events = @ \o txReceipt.Logs,
               !.linked = Append(@, txReceipt.TxHash)]

\* Lines 60-92 as they would be if the logs were collected under the same
\* condition as the success list.
linkReceiptSuccessEvents(st, txReceipt) ==
    IF txReceipt.Nil \/ Len(txReceipt.TxHash) = 0 THEN st
    ELSE LET linked ==
                 IF Len(st.headHash) = 0
                 THEN [st EXCEPT !.headHash = txReceipt.TxHash]
                 ELSE LET item == [st.tailReceiptItem EXCEPT !.NextTxHash = txReceipt.TxHash]
                      IN [st EXCEPT
                            !.tailReceiptItem = item,
                            !.s = BatchSet(@, TxKey(st.tailHash), Marshal(item)),
                            !.size = IF ~Has(st.s, TxKey(st.tailHash)) THEN @ + 1 ELSE @]
         IN [linked EXCEPT
               !.tailHash = txReceipt.TxHash,
               !.tailReceiptItem = [Receipt |-> txReceipt, NextTxHash |-> NoBytes],
               !.txHashArray = IF txReceipt.Status = statusTxSuccess
                               THEN Append(@, txReceipt.TxHash) ELSE @,
               !.events = IF txReceipt.Status = statusTxSuccess
                          THEN @ \o txReceipt.Logs ELSE @,
               !.linked = Append(@, txReceipt.TxHash)]

\* CommitReceipts, lines 60-92: one iteration of the loop over the receipts.
\* st holds the store and the function's local variables.
linkReceipt(st, txReceipt) ==
    IF txReceipt.Nil \/ Len(txReceipt.TxHash) = 0 THEN st
    ELSE LET linked ==
                 IF Len(st.headHash) = 0
                 THEN [st EXCEPT !.headHash = txReceipt.TxHash]
                 ELSE LET item == [st.tailReceiptItem EXCEPT !.NextTxHash = txReceipt.TxHash]
                      IN [st EXCEPT
                            !.tailReceiptItem = item,
                            !.s = BatchSet(@, TxKey(st.tailHash), Marshal(item)),
                            !.size = IF ~Has(st.s, TxKey(st.tailHash)) THEN @ + 1 ELSE @]
         IN [linked EXCEPT
               !.tailHash = txReceipt.TxHash,
               !.tailReceiptItem = [Receipt |-> txReceipt, NextTxHash |-> NoBytes],
               !.txHashArray = IF txReceipt.Status = statusTxSuccess
                               THEN Append(@, txReceipt.TxHash) ELSE @,
               !.events = @ \o txReceipt.Logs,
               !.linked = Append(@, txReceipt.TxHash)]

\* The loop of lines 60-92 as it would be if a nil receipt or an empty hash
\* ended it (break where the code has continue).
RECURSIVE linkReceiptsBreak(_, _)
linkReceiptsBreak(st, receipts) ==
    IF receipts = <<>> THEN st
    ELSE IF Head(receipts).Nil \/ Len(Head(receipts).TxHash) = 0 THEN st
    ELSE linkReceiptsBreak(linkReceipt(st, Head(receipts)), Tail(receipts))

RECURSIVE linkReceipts(_, _)
linkReceipts(st, receipts) ==
    IF receipts = <<>> THEN st
    ELSE linkReceipts(linkReceipt(st, Head(receipts)), Tail(receipts))

\* Lines 94-104 as they would be if the last tail were never staged.
writeTailSkipped(st) == st

\* Lines 94-104 as they would be if the tail were counted whether or not the
\* durable store holds it.
writeTailAlwaysCounted(st) ==
    IF Len(st.tailHash) > 0
    THEN [st EXCEPT
            !.s = BatchSet(@, TxKey(st.tailHash), Marshal(st.tailReceiptItem)),
            !.size = @ + 1]
    ELSE st

\* CommitReceipts, lines 94-104: the last tail is staged, and counted when the
\* durable store does not hold its key.
writeTail(st) ==
    IF Len(st.tailHash) > 0
    THEN [st EXCEPT
            !.s = BatchSet(@, TxKey(st.tailHash), Marshal(st.tailReceiptItem)),
            !.size = IF ~Has(st.s, TxKey(st.tailHash)) THEN @ + 1 ELSE @]
    ELSE st

\* Lines 106-117 as they would be without line 116 (size -= numDeleted).
evictOldKeepSize(st) ==
    IF st.s.maxReceipts < st.size
    THEN LET number == st.size - st.s.maxReceipts
             r == removeOldEntries(st.s, st.headHash, number)
             st1 == [st EXCEPT !.s = r.s, !.headHash = r.head,
                               !.evictWanted = number, !.evictDone = r.itemsDeleted]
         IN IF r.err # NilErr
            THEN [st |-> st1, ret |-> TRUE, err |-> Wrap(r.err, "removing old receipts")]
            ELSE IF st.size < r.itemsDeleted
            THEN [st |-> st1, ret |-> TRUE,
                  err |-> Wrap(r.err, "invalid count of deleted receipts")]
            ELSE [st |-> st1, ret |-> FALSE, err |-> NilErr]
    ELSE [st |-> st, ret |-> FALSE, err |-> NilErr]

\* CommitReceipts, lines 106-117: evict from the head what exceeds maxReceipts.
evictOld(st) ==
    IF st.s.maxReceipts < st.size
    THEN LET number == st.size - st.s.maxReceipts
             r == removeOldEntries(st.s, st.headHash, number)
             st1 == [st EXCEPT !.s = r.s, !.headHash = r.head,
                               !.evictWanted = number, !.evictDone = r.itemsDeleted]
         IN IF r.err # NilErr
            THEN [st |-> st1, ret |-> TRUE, err |-> Wrap(r.err, "removing old receipts")]
            ELSE IF st.size < r.itemsDeleted
            THEN [st |-> st1, ret |-> TRUE,
                  err |-> Wrap(r.err, "invalid count of deleted receipts")]
            ELSE [st |-> [st1 EXCEPT !.size = @ - r.itemsDeleted],
                  ret |-> FALSE, err |-> NilErr]
    ELSE [st |-> st, ret |-> FALSE, err |-> NilErr]

\* bloom.GenBloomFilter: a blob that depends on which events there are, not on
\* their order or number.
GenBloomFilter(events) == <<{events[i] : i \in 1..Len(events)}>>

\* setTxHashList: the encoded list of hashes staged under the height; the
\* encoding may fail.
setTxHashList(s, txHashArray, height, encodeFails) ==
    IF encodeFails
    THEN [s |-> s, err |-> <<"marshal tx hash list">>]
    ELSE [s |-> BatchSet(s, TxHashListKey(height), <<txHashArray>>), err |-> NilErr]

setBloomFilter(s, filter, height) == BatchSet(s, BloomKey(height), filter)

\* Lines 118-127 as they would be if the indexes of the height before were
\* cleared when those of the height are staged.
finishCommitClearPrevious(st, height, fault) ==
    LET s1 == setDBParams(st.s, st.size, st.headHash, st.tailHash)
        filter == GenBloomFilter(st.events)
        l == setTxHashList(s1, st.txHashArray, height, fault = "encode")
    IN IF l.err # NilErr
       THEN [st |-> [st EXCEPT !.s = l.s], err |-> Wrap(l.err, "append tx list")]
       ELSE LET b == setBloomFilter(l.s, filter, height)
                d == IF height > 1
                     THEN BatchDelete(BatchDelete(b, BloomKey(height - 1)),
                                      TxHashListKey(height - 1))
                     ELSE b
                c == Commit(d, fault = "commit")
            IN [st |-> [st EXCEPT !.s = c.s,
                                  !.committed = (c.err = NilErr),
                                  !.commitFailed = (c.err # NilErr)],
                err |-> NilErr]

\* Lines 118-127 as they would be if the batch were committed before the
\* result of setTxHashList is looked at.
finishCommitEarly(st, height, fault) ==
    LET s1 == setDBParams(st.s, st.size, st.headHash, st.tailHash)
        filter == GenBloomFilter(st.events)
        l == setTxHashList(s1, st.txHashArray, height, fault = "encode")
        c == Commit(setBloomFilter(l.s, filter, height), fault = "commit")
    IN IF l.err # NilErr
       THEN [st |-> [st EXCEPT !.s = c.s], err |-> Wrap(l.err, "append tx list")]
       ELSE [st |-> [st EXCEPT !.s = c.s,
                               !.committed = (c.err = NilErr),
                               !.commitFailed = (c.err # NilErr)],
             err |-> NilErr]

\* CommitReceipts, lines 118-127: the params and the per-height indexes are
\* staged and the batch is committed. What Commit returns is not looked at:
\* the function returns nil after it.
finishCommit(st, height, fault) ==
    LET s1 == setDBParams(st.s, st.size, st.headHash, st.tailHash)
        filter == GenBloomFilter(st.events)
        l == setTxHashList(s1, st.txHashArray, height, fault = "encode")
    IN IF l.err # NilErr
       THEN [st |-> [st EXCEPT !.s = l.s], err |-> Wrap(l.err, "append tx list")]
       ELSE LET c == Commit(setBloomFilter(l.s, filter, height), fault = "commit")
            IN [st |-> [st EXCEPT !.s = c.s,
                                  !.committed = (c.err = NilErr),
                                  !.commitFailed = (c.err # NilErr)],
                err |-> NilErr]

\* CommitReceipts as a whole: the store it leaves, the error it returns, and
\* what it did on the way.
Locals(s) ==
    [s |-> s, size |-> 0, headHash |-> NoBytes, tailHash |-> NoBytes,
     tailReceiptItem |-> EmptyItem, txHashArray |-> <<>>, events |-> <<>>,
     linked |-> <<>>, evictWanted |-> 0, evictDone |-> 0,
     committed |-> FALSE, commitFailed |-> FALSE, noop |-> FALSE]

\* CommitReceipts as it would be without s.Rollback() of line 41.
CommitReceiptsResultNoRollback(s, receipts, height, fault) ==
    IF IsNoOp(s, receipts)
    THEN [st |-> [Locals(s) EXCEPT !.noop = TRUE], err |-> NilErr]
    ELSE LET p == getDBParams(s)
         IN IF p.err # NilErr
            THEN [st |-> Locals(s), err |-> Wrap(p.err, "getting db params.")]
            ELSE LET t == fetchTail(s, p)
                 IN IF t.ret THEN [st |-> Locals(s), err |-> t.err]
                    ELSE LET st0 == [Locals(s) EXCEPT
                                       !.size = p.size, !.headHash = p.head,
                                       !.tailHash = p.tail, !.tailReceiptItem = t.item]
                             e == evictOld(writeTail(linkReceipts(st0, receipts)))
                         IN IF e.ret THEN [st |-> e.st, err |-> e.err]
                            ELSE finishCommit(e.st, height, fault)

CommitReceiptsResult(s, receipts, height, fault) ==
    IF IsNoOp(s, receipts)
    THEN [st |-> [Locals(s) EXCEPT !.noop = TRUE], err |-> NilErr]
    ELSE LET s0 == Rollback(s)
             p == getDBParams(s0)
         IN IF p.err # NilErr
            THEN [st |-> Locals(s0), err |-> Wrap(p.err, "getting db params.")]
            ELSE LET t == fetchTail(s0, p)
                 IN IF t.ret THEN [st |-> Locals(s0), err |-> t.err]
                    ELSE LET st0 == [Locals(s0) EXCEPT
                                       !.size = p.size, !.headHash = p.head,
                                       !.tailHash = p.tail, !.tailReceiptItem = t.item]
                             e == evictOld(writeTail(linkReceipts(st0, receipts)))
                         IN IF e.ret THEN [st |-> e.st, err |-> e.err]
                            ELSE finishCommit(e.st, height, fault)

\* GetReceipt: the receipt stored under txHash.
GetReceiptResult(s, txHash) ==
    LET txReceiptProto == Get(s, TxKey(txHash))
    IN IF Len(txReceiptProto) = 0
       THEN [receipt |-> NilReceipt, err |-> ErrTxReceiptNotFound]
       ELSE [receipt |-> Unmarshal(txReceiptProto).Receipt, err |-> NilErr]

\* ----------------------------------------------------------------- actions
Faults == {"none", "encode", "commit"}

NoCall ==
    [op |-> "none", receipts |-> <<>>, height |-> 0, txHash |-> NoBytes,
     err |-> NilErr, receipt |-> NilReceipt, noop |-> FALSE,
     committed |-> FALSE, commitFailed |-> FALSE,
     evictWanted |-> 0, evictDone |-> 0,
     txHashArray |-> <<>>, events |-> <<>>, linked |-> <<>>, seen |-> <<>>,
     afterFailed |-> FALSE]

Init ==
    /\ db = [k \in Keys |-> NoBytes]
    /\ batch = <<>>
    /\ maxReceipts \in 0..MaxBound
    /\ last = NoCall
    /\ pre = [k \in Keys |-> NoBytes]
    /\ calls = 0
    /\ inserted = <<>>

CommitReceipts(receipts, height, fault) ==
    /\ calls < MaxCalls
    /\ \E r \in {CommitReceiptsResult(Store, receipts, height, fault)} :
          /\ db' = r.st.s.db
          /\ batch' = r.st.s.batch
          /\ last' = [NoCall EXCEPT
                        !.op = "CommitReceipts", !.receipts = receipts,
                        !.height = height, !.err = r.err, !.noop = r.st.noop,
                        !.committed = r.st.committed,
                        !.commitFailed = r.st.commitFailed,
                        !.evictWanted = r.st.evictWanted,
                        !.evictDone = r.st.evictDone,
                        !.txHashArray = r.st.txHashArray,
                        !.events = r.st.events, !.linked = r.st.linked,
                        !.afterFailed = (/\ last.op = "CommitReceipts"
                                         /\ ~last.committed /\ ~last.noop
                                         /\ batch # <<>>)]
          /\ inserted' = IF r.st.committed THEN inserted \o r.st.linked ELSE inserted
    /\ pre' = db
    /\ calls' = calls + 1
    /\ UNCHANGED maxReceipts

GetReceipt(txHash) ==
    /\ calls < MaxCalls
    /\ \E r \in {GetReceiptResult(Store, txHash)} :
          last' = [NoCall EXCEPT !.op = "GetReceipt", !.txHash = txHash,
                                 !.err = r.err, !.receipt = r.receipt]
    /\ pre' = db
    /\ calls' = calls + 1
    /\ UNCHANGED <<db, batch, maxReceipts, inserted>>

Next ==
    \/ \E receipts \in Blocks, height \in Heights, fault \in Faults :
           CommitReceipts(receipts, height, fault)
    \/ \E txHash \in HashOrEmpty : GetReceipt(txHash)

Spec == Init /\ [][Next]_vars

\* A second specification of the same store, for what depends on the receipts
\* themselves: blocks of receipts of either status, with empty hashes and nil
\* entries, over fewer hashes, and no failure of the engine or the encoding.
MaxIdxHash == 2     \* distinct non-empty hashes in the blocks of SpecIdx

IdxReceipts ==
    {r \in Receipts : r.TxHash = NoBytes \/ r.TxHash \in {<<h>> : h \in 1..MaxIdxHash}}

IdxBlocks == SeqsUpTo(IdxReceipts, MaxBlock)

NextIdx ==
    \/ \E receipts \in IdxBlocks, height \in Heights :
           CommitReceipts(receipts, height, "none")
    \/ \E txHash \in HashOrEmpty : GetReceipt(txHash)

SpecIdx == Init /\ [][NextIdx]_vars

\* A third specification: one writer whose CommitReceipts is taken in two
\* steps, everything up to s.Commit() of line 126 and then s.Commit() itself,
\* and readers of the durable store that run between the two.
MaxConcCalls == 2   \* calls of CommitReceipts in SpecConc

\* CommitReceipts up to line 126: the store that s.Commit() is handed. It is
\* the store a call leaves whose s.Commit() applies nothing.
StagedAtCommit(s, receipts, height) == CommitReceiptsResult(s, receipts, height, "commit")

\* Lines 36-124 of a call that reaches s.Commit().
BeginCommit(receipts, height) ==
    /\ calls < MaxConcCalls
    /\ last.op # "staging"
    /\ \E r \in {StagedAtCommit(Store, receipts, height)} :
          /\ r.st.commitFailed
          /\ db' = r.st.s.db
          /\ batch' = r.st.s.batch
          /\ last' = [NoCall EXCEPT
                        !.op = "staging", !.receipts = receipts,
                        !.height = height,
                        !.evictWanted = r.st.evictWanted,
                        !.evictDone = r.st.evictDone,
                        !.txHashArray = r.st.txHashArray,
                        !.events = r.st.events, !.linked = r.st.linked]
    /\ pre' = db
    /\ calls' = calls + 1
    /\ UNCHANGED <<maxReceipts, inserted>>

\* Lines 126-127: s.Commit() and the return of nil.
EndCommit(engineFails) ==
    /\ last.op = "staging"
    /\ \E c \in {Commit(Store, engineFails)} :
          /\ db' = c.s.db
          /\ batch' = c.s.batch
          /\ last' = [last EXCEPT
                        !.op = "CommitReceipts", !.err = NilErr,
                        !.committed = (c.err = NilErr),
                        !.commitFailed = (c.err # NilErr)]
          /\ inserted' = IF c.err = NilErr THEN inserted \o last.linked ELSE inserted
    /\ UNCHANGED <<maxReceipts, pre, calls>>

\* A call of CommitReceipts that returns before line 126.
ReturnEarly(receipts, height) ==
    /\ calls < MaxConcCalls
    /\ last.op # "staging"
    /\ ~StagedAtCommit(Store, receipts, height).st.commitFailed
    /\ CommitReceipts(receipts, height, "none")

\* GetReceipt of a reader while the writer is between line 41 and line 126.
GetDuringCommit(txHash) ==
    /\ last.op = "staging"
    /\ \E g \in {GetReceiptResult(Store, txHash)} :
          last' = [last EXCEPT !.seen = <<[kind |-> "get", key |-> txHash,
                                           value |-> NoBytes,
                                           receipt |-> g.receipt, err |-> g.err]>>]
    /\ UNCHANGED <<db, batch, maxReceipts, pre, calls, inserted>>

\* A point read of the size, the head or the tail, as a walk of the chain by a
\* reader starts with, while the writer is between line 41 and line 126.
ParamDuringCommit(key) ==
    /\ last.op = "staging"
    /\ last' = [last EXCEPT !.seen = <<[kind |-> "point", key |-> key,
                                        value |-> Get(Store, key),
                                        receipt |-> NilReceipt, err |-> NilErr]>>]
    /\ UNCHANGED <<db, batch, maxReceipts, pre, calls, inserted>>

NextConc ==
    \/ \E receipts \in Blocks, height \in Heights : BeginCommit(receipts, height)
    \/ \E engineFails \in BOOLEAN : EndCommit(engineFails)
    \/ \E receipts \in Blocks, height \in Heights : ReturnEarly(receipts, height)
    \/ \E txHash \in HashOrEmpty : GetDuringCommit(txHash)
    \/ \E key \in {currentDbSizeKey, headKey, tailKey} : ParamDuringCommit(key)

SpecConc == Init /\ [][NextConc]_vars

\* ------------------------------------------------ the durable chain, read
Size(d) == IF d[currentDbSizeKey] = NoBytes THEN 0 ELSE Uint64(d[currentDbSizeKey])
HeadOf(d) == d[headKey]
TailOf(d) == d[tailKey]
NodePresent(d, h) == Len(h) > 0 /\ d[TxKey(h)] # NoBytes
Node(d, h) == Unmarshal(d[TxKey(h)])
StoredHashes(d) == {h \in Hashes : NodePresent(d, h)}
EmptyDb == [k \in Keys |-> NoBytes]

\* The hashes met walking from h through next, at most n of them, stopping at
\* an empty hash or at a key with no node.
RECURSIVE Walk(_, _, _)
Walk(d, h, n) ==
    IF n = 0 \/ ~NodePresent(d, h) THEN <<>>
    ELSE <<h>> \o Walk(d, Node(d, h).NextTxHash, n - 1)

Range(q) == {q[i] : i \in 1..Len(q)}
Distinct(q) == \A i, j \in 1..Len(q) : i # j => q[i] # q[j]

CommitCalled == last.op = "CommitReceipts"
CommitSucceeded == CommitCalled /\ last.err = NilErr /\ last.committed

\* The chain a store describes is sound: from head, exactly Size nodes, each
\* stored under its key, the last of them the tail, whose next is empty.
ChainIntegrity(d) ==
    LET n == Size(d)
        w == Walk(d, HeadOf(d), n + 1)
    IN IF n = 0 THEN w = <<>>
       ELSE /\ Len(w) = n
            /\ w[n] = TailOf(d)
            /\ Node(d, w[n]).NextTxHash = NoBytes

\* ------------------------------------------------------------------ claims

\* C1 (chain integrity): after any sequence of successful CommitReceipts
\* calls, walking from the persisted head via next exactly size times
\* reaches the persisted tail, whose next is empty, and every node on the walk
\* is stored under its own key. Stated for the histories the claim is most
\* plainly about: receipts with pairwise distinct non-empty hashes.
C1_ChainIntegrity == Distinct(inserted) => ChainIntegrity(db)

\* C2 (FIFO eviction): with a bound N >= 1, once M > N receipts with pairwise
\* distinct non-empty hashes were inserted (in any split into blocks), the
\* stored nodes are exactly the N most recently inserted, the chain from head
\* lists them oldest first, and tail is the newest.
C2_FifoEviction ==
    (maxReceipts >= 1 /\ Distinct(inserted) /\ Len(inserted) > maxReceipts) =>
        LET newest == SubSeq(inserted, Len(inserted) - maxReceipts + 1, Len(inserted))
        IN /\ StoredHashes(db) = Range(newest)
           /\ HeadOf(db) = newest[1]
           /\ TailOf(db) = newest[maxReceipts]
           /\ Walk(db, HeadOf(db), maxReceipts + 1) = newest

\* C3 (errors change nothing): a CommitReceipts call that returns an error
\* leaves the durable store exactly as it was before the call.
C3_ErrorLeavesStoreUnchanged == (CommitCalled /\ last.err # NilErr) => db = pre

\* C3 witness: a call failed after it had staged writes, on a store that
\* held nodes.
C3_Witness ==
    /\ CommitCalled /\ last.err # NilErr
    /\ batch # <<>>
    /\ StoredHashes(pre) # {}

\* C4 (no partial commit): when the engine fails during the final atomic
\* apply, no staged key becomes visible and CommitReceipts returns an error.
C4_CommitFailureSurfaced ==
    (CommitCalled /\ last.commitFailed) => (db = pre /\ last.err # NilErr)

\* C5 (size bound): with maxReceipts >= 1 the persisted size never exceeds
\* maxReceipts, whatever the block and the chain before it.
C5_SizeBound == maxReceipts >= 1 => Size(db) <= maxReceipts

\* C5 witness: a committed call that linked several receipts onto a chain
\* already holding nodes, and evicted.
C5_Witness ==
    /\ CommitSucceeded /\ maxReceipts >= 1
    /\ Len(last.linked) >= 2 /\ Size(pre) >= 1 /\ last.evictWanted >= 1
    /\ Size(db) = maxReceipts

\* C6 (params invariant): size = 0 exactly when head and tail are both
\* empty, and when size > 0 both head and tail are non-empty hashes of
\* stored nodes. Stated for histories of pairwise distinct hashes.
C6_ParamsInvariant ==
    Distinct(inserted) =>
        /\ Size(db) = 0 <=> (HeadOf(db) = NoBytes /\ TailOf(db) = NoBytes)
        /\ Size(db) > 0 => (NodePresent(db, HeadOf(db)) /\ NodePresent(db, TailOf(db)))

\* C7 (no-op commits): CommitReceipts with no receipts, or with maxReceipts
\* zero, returns nil and leaves every key of the durable store, the
\* per-height ones included, as it was.
C7_NoOpCommit ==
    (CommitCalled /\ (last.receipts = <<>> \/ maxReceipts = 0)) =>
        (last.err = NilErr /\ db = pre)

\* C7 witness: an empty block was committed to a store holding a chain.
C7_Witness ==
    /\ CommitCalled /\ last.receipts = <<>> /\ maxReceipts >= 1
    /\ Size(db) >= 1

\* C8 (missing tail): when the params give a non-empty head and the key of
\* the persisted tail holds no node, CommitReceipts returns a non-nil error
\* and commits nothing.
C8_MissingTailIsError ==
    (/\ CommitCalled /\ ~last.noop
     /\ Size(pre) > 0 /\ HeadOf(pre) # NoBytes /\ TailOf(pre) # NoBytes
     /\ ~NodePresent(pre, TailOf(pre)))
        => (last.err # NilErr /\ db = pre)

\* The keys a batch deletes.
DeletedKeys(b) == {b[i].key : i \in {j \in 1..Len(b) : b[j].op = "delete"}}

C10_First(a, b) ==
    /\ maxReceipts = 2 /\ CommitSucceeded
    /\ pre = EmptyDb /\ last.linked = <<a, b>> /\ Len(last.receipts) = 2
    /\ last.height = 1
C10_Second(a, b, c) ==
    /\ maxReceipts = 2 /\ CommitSucceeded
    /\ inserted = <<a, b, c>> /\ last.receipts = <<Rcpt(c, statusTxSuccess)>>
    /\ last.height = 2
    /\ pre[TxHashListKey(1)] = <<(<<a, b>>)>> /\ pre[TxHashListKey(2)] = NoBytes
C10_Scenario ==
    \A a, b, c \in Hashes :
        (a # b /\ a # c /\ b # c) =>
            /\ C10_First(a, b) =>
                   (Size(db) = 2 /\ HeadOf(db) = a /\ TailOf(db) = b)
            /\ C10_Second(a, b, c) =>
                   /\ Size(db) = 2 /\ HeadOf(db) = b /\ TailOf(db) = c
                   /\ Node(db, b).NextTxHash = c
                   /\ Node(db, c).NextTxHash = NoBytes
                   /\ Walk(db, HeadOf(db), MaxHash + 1) = <<b, c>>

\* C10 witness: the second commit of the scenario has happened.
C10_Witness == C10_Second(<<1>>, <<2>>, <<3>>)

\* The receipts of a block that CommitReceipts processes: not nil, hash not
\* empty.
Processed(rs) == SelectSeq(rs, LAMBDA r : ~r.Nil /\ r.TxHash # NoBytes)

\* The last receipt of a block that carries hash h.
LastWithHash(rs, h) ==
    LET at == {i \in 1..Len(rs) : ~rs[i].Nil /\ rs[i].TxHash = h}
    IN rs[CHOOSE i \in at : \A j \in at : j <= i]

\* C11 (lookup): GetReceipt(h) returns the receipt last committed under h for
\* every h whose node is stored, wherever it is in the chain, and
\* ErrTxReceiptNotFound for every key with no node. Stated step by step: after
\* a committed call the receipt stored under a hash of the block is the last
\* receipt of the block with that hash, and the receipt stored under any
\* other hash is the one stored before the call (re-linking a tail changes
\* only its next); a call that commits nothing and a GetReceipt change none.
C11_Lookup ==
    /\ \A h \in HashOrEmpty :
           LET g == GetReceiptResult(Store, h)
           IN IF NodePresent(db, h)
              THEN /\ g.err = NilErr
                   /\ g.receipt =
                          IF CommitSucceeded /\ h \in Range(last.linked)
                          THEN LastWithHash(last.receipts, h)
                          ELSE Node(pre, h).Receipt
              ELSE g.err = ErrTxReceiptNotFound
    /\ last.op = "GetReceipt" =>
           [receipt |-> last.receipt, err |-> last.err]
               = GetReceiptResult(Store, last.txHash)

\* C11 witness: GetReceipt returned the failed receipt of a node that a later
\* insertion had linked onward.
C11_Witness ==
    /\ last.op = "GetReceipt" /\ last.err = NilErr
    /\ last.receipt = Rcpt(last.txHash, statusTxFailure)
    /\ Node(db, last.txHash).NextTxHash # NoBytes

\* The hashes of a sequence of receipts, in its order.
HashesOf(rs) == [i \in 1..Len(rs) |-> rs[i].TxHash]

\* The logs of a sequence of receipts, in its order.
RECURSIVE LogsOf(_)
LogsOf(rs) == IF rs = <<>> THEN <<>> ELSE Head(rs).Logs \o LogsOf(Tail(rs))

\* The hashes of the processed receipts of a block whose status is success.
SuccessHashes(rs) ==
    HashesOf(SelectSeq(Processed(rs), LAMBDA r : r.Status = statusTxSuccess))

\* C12 (per-height success list and bloom input): a committed call stores
\* under its height the hashes of the receipts of the block with a non-empty
\* hash and success status, in the order of the block, so the hash of a failed
\* receipt is there only if a successful receipt of the block carries it too;
\* the events given to the bloom builder are the logs of every processed
\* receipt, failed ones included, and the filter built from them is stored
\* under the height.
C12_SuccessListAndEvents ==
    (CommitSucceeded /\ ~last.noop) =>
        /\ db[TxHashListKey(last.height)] = <<SuccessHashes(last.receipts)>>
        /\ last.txHashArray = SuccessHashes(last.receipts)
        /\ last.events = LogsOf(Processed(last.receipts))
        /\ db[BloomKey(last.height)] = GenBloomFilter(LogsOf(Processed(last.receipts)))

\* C12 witness: a block with a failed and a successful receipt was committed;
\* the list holds the successful hash alone and the events hold both logs.
C12_Witness ==
    /\ CommitSucceeded
    /\ \E i, j \in 1..Len(last.receipts) :
           LET f == last.receipts[i]
               g == last.receipts[j]
           IN /\ ~f.Nil /\ f.TxHash # NoBytes /\ f.Status = statusTxFailure
              /\ ~g.Nil /\ g.TxHash # NoBytes /\ g.Status = statusTxSuccess
              /\ db[TxHashListKey(last.height)] = <<(<<g.TxHash>>)>>
              /\ Range(f.Logs) \subseteq Range(last.events)
              /\ Range(g.Logs) \subseteq Range(last.events)

Tails(d) == {h \in StoredHashes(d) : Node(d, h).NextTxHash = NoBytes}

\* C14 (single tail): in every durable state with a non-empty chain exactly
\* one stored node has an empty next, and it is the node under the persisted
\* tail.
C14_SingleTail == Size(db) > 0 => Tails(db) = {TailOf(db)}

\* The error of a call whose hash list could not be encoded.
EncodeErr == Wrap(<<"marshal tx hash list">>, "append tx list")

\* C15 (no self-inflicted corruption): on a store with maxReceipts >= 1 that
\* started empty and was written by CommitReceipts alone, with hashes that
\* are non-empty and distinct over all the calls, no call returns an error
\* about the chain (no head or tail for a non-zero size, fewer nodes removed
\* than asked) and none returns through the missing-tail branch.
C15_NoSelfInflictedError ==
    (/\ CommitCalled
     /\ maxReceipts >= 1
     /\ NoBytes \notin Range(HashesOf(last.receipts))
     /\ Distinct(IF last.committed THEN inserted
                 ELSE inserted \o HashesOf(last.receipts)))
    => \/ last.err = EncodeErr
       \/ last.err = NilErr /\ (last.noop \/ last.committed \/ last.commitFailed)

\* The walk of the whole chain of a store, from its head.
WalkAll(d) == Walk(d, HeadOf(d), Cardinality(Hashes) + 1)

\* A committed call whose receipts have non-empty, pairwise distinct hashes,
\* none of them stored before the call, and that had nothing to evict.
FreshInsertion ==
    /\ CommitSucceeded /\ ~last.noop
    /\ last.evictWanted = 0
    /\ NoBytes \notin Range(HashesOf(last.receipts))
    /\ Distinct(HashesOf(last.receipts))
    /\ Range(HashesOf(last.receipts)) \cap StoredHashes(pre) = {}

\* C16 (insertion order is chain order): after such a call the walk from the
\* head is the walk before the call followed by the new hashes in the order
\* of the block, and the last of them is the tail.
C16_InsertionOrder ==
    FreshInsertion =>
        /\ WalkAll(db) = WalkAll(pre) \o HashesOf(last.receipts)
        /\ TailOf(db) = last.receipts[Len(last.receipts)].TxHash
        /\ Node(db, TailOf(db)).NextTxHash = NoBytes

\* C16 witness: a receipt was appended to a chain of one node, whose next now
\* names it.
C16_Witness ==
    /\ FreshInsertion
    /\ Len(WalkAll(pre)) = 1
    /\ Node(db, TailOf(pre)).NextTxHash = last.receipts[1].TxHash

\* The store before the last call, with nothing staged.
CleanPre == [db |-> pre, batch |-> <<>>, maxReceipts |-> maxReceipts]

\* C17 (stale staged writes are discarded): what a committed call applies to
\* the durable store is what the same call applies to the same durable state
\* with an empty batch; nothing that an earlier call staged and did not commit
\* is in the batch it commits.
C17_StaleWritesDiscarded ==
    (CommitCalled /\ last.committed) =>
        LET clean == CommitReceiptsResult(CleanPre, last.receipts, last.height, "none")
        IN /\ db = clean.st.s.db
           /\ batch = clean.st.s.batch
           /\ last.err = clean.err

\* C17 witness: a call committed right after a call that had staged writes and
\* did not commit them.
C17_Witness == CommitCalled /\ last.committed /\ last.afterFailed

\* C18 (empty-hash and nil receipts are filtered): a call whose block holds
\* nil entries or receipts with an empty hash besides at least one other
\* receipt has the result and the effects of the same call on the block
\* without them: the same durable store (nodes, size, head, tail, both
\* indexes), the same success list and the same events; no node is ever
\* stored under the empty hash.
C18_EmptyHashFiltered ==
    /\ db[TxKey(NoBytes)] = NoBytes
    /\ (CommitCalled /\ ~last.noop /\ Processed(last.receipts) # <<>>) =>
           LET f == CommitReceiptsResult(CleanPre, Processed(last.receipts),
                                         last.height, "none")
           IN /\ db = f.st.s.db
              /\ last.err = f.err
              /\ last.committed = f.st.committed
              /\ last.txHashArray = f.st.txHashArray
              /\ last.events = f.st.events
              /\ last.linked = f.st.linked

\* C18 witness: a block that starts with an entry to skip and goes on with a
\* receipt to store was committed.
C18_Witness ==
    /\ CommitSucceeded
    /\ Len(last.receipts) = 2
    /\ last.receipts[1].Nil \/ last.receipts[1].TxHash = NoBytes
    /\ NodePresent(db, last.receipts[2].TxHash)
    /\ Size(db) = 1

\* The keys of the per-height indexes.
IndexKeys(n) == {BloomKey(n), TxHashListKey(n)}

\* The keys a batch writes or deletes.
TouchedKeys(b) == {b[i].key : i \in 1..Len(b)}

\* C19 (per-height indexes are outside the chain's lifecycle): a call at a
\* height leaves the index entries of every other height as they were and
\* stages nothing for them; no call deletes an index entry, so an entry once
\* written stays, also when the receipts of its height are evicted.
C19_IndexesPersist ==
    /\ \A n \in Heights : \A k \in IndexKeys(n) :
           /\ pre[k] # NoBytes => db[k] # NoBytes
           /\ (CommitCalled /\ n # last.height) => db[k] = pre[k]
    /\ (CommitCalled /\ ~last.noop) =>
           /\ \A n \in Heights \ {last.height} : IndexKeys(n) \cap TouchedKeys(batch) = {}
           /\ \A n \in Heights : IndexKeys(n) \cap DeletedKeys(batch) = {}

\* C19 witness: a call at height 2 evicted the only receipt of height 1, whose
\* success list is still stored.
C19_Witness ==
    /\ CommitSucceeded
    /\ last.height = 2
    /\ last.evictDone > 0
    /\ \E h \in Hashes :
          /\ pre[TxHashListKey(1)] = <<(<<h>>)>>
          /\ db[TxHashListKey(1)] = <<(<<h>>)>>
          /\ NodePresent(pre, h) /\ ~NodePresent(db, h)

\* C20 (size accounting): while the hashes linked by committed calls are
\* pairwise distinct, the persisted size is the number of nodes in the
\* durable store.
C20_SizeAccounting ==
    Distinct(inserted) => Size(db) = Cardinality(StoredHashes(db))

\* C20 witness: a committed call linked a new receipt behind a tail that was
\* already stored; two nodes are stored and the size is 2.
C20_Witness ==
    /\ CommitSucceeded
    /\ Distinct(inserted)
    /\ NodePresent(pre, TailOf(pre))
    /\ Node(db, TailOf(pre)).NextTxHash = TailOf(db)
    /\ TailOf(db) # TailOf(pre)
    /\ Size(db) = 2

====
